---- MODULE Spec2Model ----
(***************************************************************************)
(* Model of the douyin crawler: the comment harvester                      *)
(* (Client.get_aweme_all_comments), the request path (Client.get,          *)
(* Client.__process_req_params, Client.request) and the batch orchestrator *)
(* (Crawler.start, search, get_specified_awemes, batch_get_note_comments). *)
(* The signing routine, the client's cookies and the drag trajectories of   *)
(* utils.py have specifications of their own further down.                 *)
(*                                                                         *)
(* asyncio runs one task at a time; a task runs from one await that        *)
(* suspends to the next.  Every action below is one such run.              *)
(***************************************************************************)
EXTENDS Integers, Sequences, FiniteSets, TLC

(***************************************************************************)
(* Bounds of the model.                                                    *)
(***************************************************************************)
MaxPages == 3       \* page fetches of one harvest
MaxItems == 2       \* target items of one batch
MaxPermits == 2     \* os.cpu_count() of the machine
MaxKeywords == 2    \* search keywords of one run
MaxCookies == 2     \* cookies the browser holds at one time
MaxDistance == 10   \* every distance up to this one is tried
MaxSide == 3        \* rows and columns of a gap image
MaxRequests == 2    \* requests the client issues in one session

(***************************************************************************)
(* Python values.  An Optional is <<>> (None) or <<v>>.                    *)
(***************************************************************************)
None == <<>>
Some(v) == <<v>>
IsNone(o) == o = <<>>
Val(o) == o[1]
PyNone == <<"None">>
EmptyDict == <<"dict">>

\* the value of a variable whose part of the program is not running
NoCall == [pc |-> "none"]

Min(a, b) == IF a <= b THEN a ELSE b
Max(a, b) == IF a >= b THEN a ELSE b

\* dict.get(k, d) on a record
Get(r, k, d) == IF k \in DOMAIN r THEN r[k] ELSE d

\* s[:n], Python slice semantics
Slice(s, n) ==
  IF n >= 0 THEN SubSeq(s, 1, Min(n, Len(s)))
  ELSE SubSeq(s, 1, Max(Len(s) + n, 0))

\* kw in text (substring, characters compared as they are)
Contains(text, kw) ==
  \E s \in 0..(Len(text) - Len(kw)) : SubSeq(text, s + 1, s + Len(kw)) = kw

(***************************************************************************)
(* The request path.  A parameter map is an insertion-ordered dict: a      *)
(* sequence of <<key, value>> pairs with distinct keys.                    *)
(***************************************************************************)
Keys(d) == {d[j][1] : j \in 1..Len(d)}

\* d[k] = v
DictSet(d, k, v) ==
  IF k \in Keys(d)
  THEN [j \in 1..Len(d) |-> IF d[j][1] = k THEN <<k, v>> ELSE d[j]]
  ELSE Append(d, <<k, v>>)

RECURSIVE DictUpdate(_, _)
\* d.update(e)
DictUpdate(d, e) ==
  IF e = <<>> THEN d
  ELSE DictUpdate(DictSet(d, e[1][1], e[1][2]), Tail(e))

DictGet(d, k) == (CHOOSE j \in 1..Len(d) : d[j][1] = k) \* index of key k

common_params ==
  << <<"device_platform", "webapp">>, <<"aid", "6383">>,
     <<"channel", "channel_pc_web">>, <<"cookie_enabled", "true">>,
     <<"browser_language", "zh-CN">>, <<"browser_platform", "Win32">>,
     <<"browser_name", "Firefox">>, <<"browser_version", "110.0">>,
     <<"browser_online", "true">>, <<"engine_name", "Gecko">>,
     <<"os_name", "Windows">>, <<"os_version", "10">>,
     <<"engine_version", "109.0">>, <<"platform", "PC">>,
     <<"screen_width", "1920">>, <<"screen_height", "1200">> >>

user_agent == "Mozilla/5.0"

\* "&".join(f"{k}={v}" ...): the pairs in order, one element per pair
Query(d) == [j \in 1..Len(d) |-> <<d[j][1], "=", d[j][2]>>]

\* the opaque evaluator: an uninterpreted function of its two arguments
Evaluator(query, ua) == <<"sign", query, ua>>

\* ProcessReqParams, had the signature been computed over the caller's own
\* entries, before the platform constants were merged
ProcessReqParams_SignUnmerged(params, ua) ==
  IF params = <<>> THEN params
  ELSE DictSet(DictUpdate(params, common_params), "X-Bogus",
               Evaluator(Query(params), ua))

\* Client.__process_req_params after the local-storage read has returned
ProcessReqParams(params, ua) ==
  IF params = <<>> THEN params
  ELSE LET merged == DictUpdate(params, common_params)
       IN DictSet(merged, "X-Bogus", Evaluator(Query(merged), ua))

\* Client.get_aweme_comments: the parameter map of one page request
CommentParams(aweme_id, cursor) ==
  << <<"aweme_id", aweme_id>>, <<"cursor", cursor>>,
     <<"count", 20>>, <<"item_type", 0>> >>

\* Client.get_video_by_id: the parameter map of one detail request
DetailParams(aweme_id) == << <<"aweme_id", aweme_id>> >>

ParamCursor(d) == d[DictGet(d, "cursor")][2]


(***************************************************************************)
(* State.                                                                  *)
(***************************************************************************)
VARIABLES
  opc,               \* position of the caller (Crawler.start) coroutine
  tasks,             \* the units of work of the current batch, in list order
  sem,               \* Semaphore._value of the current batch
  cpu_count,         \* os.cpu_count()
  max_comments,      \* Optional int
  keywords,          \* Optional list of keywords
  callback,          \* whether a per-page callback is supplied
  search_keywords,   \* Crawler.search_keywords
  awemes,            \* Crawler.awemes
  kw,                \* index of the keyword Crawler.search is working on
  page,              \* Crawler.search: page
  aweme_list,        \* the target ids of the current batch
  aweme_details,     \* Optional result of asyncio.gather
  batches,           \* number of batch operations that have returned
  failed_items,      \* ids of the items a fetch has failed for in the run
  sign,              \* one call of Client.__process_req_params
  cookies,           \* the browser's cookies and what the client holds of them
  slide              \* one call of a captcha function of utils.py

vars == <<opc, tasks, sem, cpu_count, max_comments, keywords, callback,
          search_keywords, awemes, kw, page, aweme_list, aweme_details,
          batches, failed_items, sign, cookies, slide>>

\* what no step of a crawler run or of a harvest changes
config == <<cpu_count, max_comments, keywords, callback, search_keywords, awemes,
            sign, cookies, slide>>

\* the state of a crawler run
crawl == <<opc, tasks, sem, cpu_count, max_comments, keywords, callback,
           search_keywords, awemes, kw, page, aweme_list, aweme_details,
           batches, failed_items>>

(***************************************************************************)
(* One unit of work: a detail fetch (Crawler.get_aweme_detail) or a        *)
(* harvest (Crawler.get_comments around Client.get_aweme_all_comments).    *)
(* pc is the await the unit is suspended at.  The fields after "ret" are   *)
(* history: they record what the unit has done and steer nothing.          *)
(***************************************************************************)
NewTask(kind, aweme_id) ==
  [kind |-> kind, aweme_id |-> aweme_id, pc |-> "created", permit |-> FALSE,
   comments_has_more |-> 1, comments_cursor |-> 0,
   collected_comments_count |-> 0,
   comments_res |-> None, comments |-> <<>>, result |-> <<>>,
   params |-> <<>>, ret |-> PyNone,
   signed |-> 0,     \* times the current parameter map has been signed
   sent |-> 0,       \* times the current parameter map has been transmitted
   built |-> 0,      \* parameter maps built by this unit
   evals |-> 0,      \* evaluator invocations of this unit
   sends |-> 0,      \* transmissions of this unit
   pages |-> <<>>,   \* length of every page received
   yields |-> <<>>,  \* length of every batch yielded
   sleeps |-> 0,     \* asyncio.sleep calls that have returned
   calls |-> <<>>,   \* length of the list every callback invocation was passed
   call |-> None,    \* arguments of the callback invocation that has not returned
   failed |-> FALSE] \* an exception has propagated out of the fetch

Ended(t) == t.pc \in {"returned", "raised"}

\* Raise, had the request path retried a failed request
Raise_Retry(t) == [t EXCEPT !.failed = TRUE, !.pc = "signing"]

\* an exception propagates out of the generator or the detail fetch
Raise(t) == [t EXCEPT !.pc = "raised", !.failed = TRUE]

\* BeginGet, had the platform constants been merged before the local-storage
\* read
BeginGet_MergeEarly(t, params) ==
  [t EXCEPT !.params = DictUpdate(params, common_params), !.signed = 0,
            !.sent = 0, !.built = @ + 1, !.pc = "signing"]

\* BeginGet, had the caller kept one parameter map for all its requests
BeginGet_Reuse(t, params) ==
  IF t.built = 0
  THEN [t EXCEPT !.params = params, !.built = @ + 1, !.pc = "signing"]
  ELSE [t EXCEPT !.params = DictUpdate(@, params), !.built = @ + 1,
                 !.pc = "signing"]

\* Client.get up to the await in __process_req_params
BeginGet(t, params) ==
  [t EXCEPT !.params = params, !.signed = 0, !.sent = 0, !.built = @ + 1,
            !.pc = "signing"]

\* LoopCondition, had has_more not been looked at
LoopCondition_IgnoreHasMore(t) ==
  \/ IsNone(max_comments)
  \/ t.collected_comments_count < Val(max_comments)
  \/ Val(max_comments) = 0

\* LoopCondition, had a maximum of 0 been taken as a quota of 0
LoopCondition_ZeroIsQuota(t) ==
  /\ t.comments_has_more # 0
  /\ \/ IsNone(max_comments)
     \/ t.collected_comments_count < Val(max_comments)

\* the while condition of get_aweme_all_comments
LoopCondition(t) ==
  /\ t.comments_has_more # 0
  /\ \/ IsNone(max_comments)
     \/ t.collected_comments_count < Val(max_comments)
     \/ Val(max_comments) = 0

\* top of the loop: either the next page request is begun or the generator ends
LoopTop(t) ==
  IF LoopCondition(t)
  THEN BeginGet([t EXCEPT !.result = <<>>],
                CommentParams(t.aweme_id, t.comments_cursor))
  ELSE [t EXCEPT !.pc = "returned"]

\* FilterComments, had the keyword list been ignored
FilterComments_KeepAll(comments) == comments

\* keyword filtering of one page
FilterComments(comments) ==
  IF ~IsNone(keywords) /\ Val(keywords) # <<>>
  THEN SelectSeq(comments,
         LAMBDA c : \E j \in 1..Len(Val(keywords)) :
                       Contains(Get(c, "text", <<>>), Val(keywords)[j]))
  ELSE comments

\* CommentsToAdd, had the page not been cut to the remaining quota
CommentsToAdd_NoCut(t, filtered_comments) == filtered_comments

\* the quota cut of one filtered page
CommentsToAdd(t, filtered_comments) ==
  IF ~IsNone(max_comments) /\ Val(max_comments) > 0
  THEN Slice(filtered_comments,
             Val(max_comments) - t.collected_comments_count)
  ELSE filtered_comments

\* the break after the callback, else the sleep
AfterCallback(t) ==
  IF /\ ~IsNone(max_comments)
     /\ 0 < Val(max_comments)
     /\ Val(max_comments) <= t.collected_comments_count
  THEN [t EXCEPT !.pc = "returned", !.call = None]
  ELSE [t EXCEPT !.pc = "sleep", !.call = None]

\* OnPage, had an empty page ended the harvest
OnPage_EmptyEnds(t, res) ==
  LET comments == Get(res, "comments", <<>>)
      t1 == [t EXCEPT !.comments_res = Some(res),
                      !.comments_has_more = Get(res, "has_more", 0),
                      !.comments_cursor = Get(res, "cursor", 0),
                      !.comments = comments,
                      !.pages = Append(@, Len(comments))]
  IN IF comments = <<>> THEN [t1 EXCEPT !.pc = "returned"]
     ELSE LET comments_to_add == CommentsToAdd(t1, FilterComments(comments))
              t2 == [t1 EXCEPT !.result = comments_to_add,
                               !.collected_comments_count =
                                   @ + Len(comments_to_add)]
          IN IF callback
             THEN [t2 EXCEPT !.pc = "callback",
                             !.calls = Append(@, Len(comments)),
                             !.call = Some(<<t.aweme_id, comments>>)]
             ELSE AfterCallback(t2)

\* OnPage, had the callback been passed the batch instead of the page
OnPage_CallbackGetsBatch(t, res) ==
  LET comments == Get(res, "comments", <<>>)
      t1 == [t EXCEPT !.comments_res = Some(res),
                      !.comments_has_more = Get(res, "has_more", 0),
                      !.comments_cursor = Get(res, "cursor", 0),
                      !.comments = comments,
                      !.pages = Append(@, Len(comments))]
  IN IF comments = <<>> THEN LoopTop(t1)
     ELSE LET comments_to_add == CommentsToAdd(t1, FilterComments(comments))
              t2 == [t1 EXCEPT !.result = comments_to_add,
                               !.collected_comments_count =
                                   @ + Len(comments_to_add)]
          IN IF callback
             THEN [t2 EXCEPT !.pc = "callback",
                             !.calls = Append(@, Len(comments_to_add)),
                             !.call = Some(<<t.aweme_id, comments_to_add>>)]
             ELSE AfterCallback(t2)

\* a page response has arrived
OnPage(t, res) ==
  LET comments == Get(res, "comments", <<>>)
      t1 == [t EXCEPT !.comments_res = Some(res),
                      !.comments_has_more = Get(res, "has_more", 0),
                      !.comments_cursor = Get(res, "cursor", 0),
                      !.comments = comments,
                      !.pages = Append(@, Len(comments))]
  IN IF comments = <<>> THEN LoopTop(t1)
     ELSE LET comments_to_add == CommentsToAdd(t1, FilterComments(comments))
              t2 == [t1 EXCEPT !.result = comments_to_add,
                               !.collected_comments_count =
                                   @ + Len(comments_to_add)]
          IN IF callback
             THEN [t2 EXCEPT !.pc = "callback",
                             !.calls = Append(@, Len(comments)),
                             !.call = Some(<<t.aweme_id, comments>>)]
             ELSE AfterCallback(t2)

\* the sleep is over: the batch is yielded
YieldResult(t) ==
  [t EXCEPT !.pc = "yield", !.sleeps = @ + 1,
            !.yields = Append(@, Len(t.result))]

\* a detail response has arrived
OnDetail(t, res) ==
  [t EXCEPT !.ret = Get(res, "aweme_detail", EmptyDict), !.pc = "returned"]

\* __process_req_params from the local-storage read on, then Client.request
\* up to the await of the transport
SignAndSend(t) ==
  [t EXCEPT !.params = ProcessReqParams(@, user_agent),
            !.signed = @ + 1, !.evals = @ + 1,
            !.sent = @ + 1, !.sends = @ + 1,
            !.pc = "request"]

\* the evaluator raises: the constants are merged already, in place
SignFails(t) ==
  Raise([t EXCEPT !.params = DictUpdate(@, common_params), !.evals = @ + 1])


(***************************************************************************)
(* What the platform and the callers may supply.                           *)
(***************************************************************************)
Comment_ab == [cid |-> 1, text |-> <<"x", "a", "b">>]
Comment_Ab == [cid |-> 2, text |-> <<"A", "b">>]
Comment_notext == [cid |-> 3]

SeqsUpTo(S, n) == UNION {[1..m -> S] : m \in 0..n}

\* a page of n comments, as in the two-page scenario (15 then 10 comments)
ScenarioPage(n) == [j \in 1..n |-> [cid |-> j, text |-> <<"o", "k">>]]

\* the comments of an ordinary page
CommentLists ==
  {<<>>, <<Comment_ab>>, <<Comment_Ab, Comment_ab>>,
   <<Comment_notext, Comment_Ab>>,
   <<Comment_ab, Comment_notext, Comment_Ab>>}

Cursors == {15, 25}

\* a response of the comment list endpoint; every field may be missing
Responses(lists) ==
  LET withComments == {[comments |-> c] : c \in lists}
      withMore == withComments \cup
                  {[comments |-> r.comments, has_more |-> h] :
                     r \in withComments, h \in {0, 1}}
  IN withMore \cup
     {IF "has_more" \in DOMAIN r
      THEN [comments |-> r.comments, has_more |-> r.has_more, cursor |-> c]
      ELSE [comments |-> r.comments, cursor |-> c] :
        r \in withMore, c \in Cursors}

HarvestResponses ==
  Responses(CommentLists) \cup
  {[has_more |-> 1, cursor |-> 15, comments |-> ScenarioPage(15)],
   [has_more |-> 0, comments |-> ScenarioPage(10)]}

\* the pages the platform serves inside an orchestrator run
OrchResponses ==
  {[has_more |-> 1, cursor |-> 15, comments |-> <<Comment_ab>>],
   [has_more |-> 0, cursor |-> 25, comments |-> <<Comment_Ab, Comment_ab>>]}

\* a response of the detail endpoint
DetailResponses(aweme_id) ==
  {[aweme_detail |-> <<"detail", aweme_id>>],
   [aweme_detail |-> PyNone],
   [status_code |-> 0]}

MaxCommentsChoices == {None, Some(0), Some(1), Some(3), Some(20)}

KeywordChoices ==
  {None, Some(<<>>), Some(<< <<"a", "b">> >>), Some(<< <<"z">>, <<"A">> >>)}

AwemeIds == 1..MaxItems

\* target lists: the first n ids, and one list that is not in the order of
\* the ids
AwemeLists ==
  {[j \in 1..n |-> j] : n \in 0..MaxItems} \cup
  {[j \in 1..n |-> n + 1 - j] : n \in {2} \cap (1..MaxItems)}

\* the ids one search page may add to the list collected so far
Posts(list) ==
  IF Len(list) >= MaxItems THEN {<<>>}
  ELSE {<<>>, <<Len(list) + 1>>}

dy_limit_count == 10
max_note_count == 32

(***************************************************************************)
(* Steps of one unit of work.                                              *)
(***************************************************************************)
Held(ts) == Cardinality({j \in DOMAIN ts : ts[j].permit})

\* Put, had the permit not been given back at the end of a unit
Put_NoRelease(i, t, value) ==
  LET t2 == IF Ended(t) THEN [t EXCEPT !.permit = FALSE] ELSE t
      ts == [tasks EXCEPT ![i] = t2]
  IN /\ tasks' = ts
     /\ sem' = value
     /\ failed_items' = IF t.failed THEN failed_items \cup {t.aweme_id}
                        ELSE failed_items
     /\ UNCHANGED <<opc, config, kw, page, aweme_list, aweme_details, batches>>

\* Put, had the permit been given back on the normal path only
Put_LeakOnRaise(i, t, value) ==
  LET t2 == IF Ended(t) THEN [t EXCEPT !.permit = FALSE] ELSE t
      ts == [tasks EXCEPT ![i] = t2]
  IN /\ tasks' = ts
     /\ sem' = IF t.pc = "returned" /\ t.permit THEN value + 1 ELSE value
     /\ failed_items' = IF t.failed THEN failed_items \cup {t.aweme_id}
                        ELSE failed_items
     /\ UNCHANGED <<opc, config, kw, page, aweme_list, aweme_details, batches>>

\* Put, had the exception of one unit cancelled the other units of the batch
Put_AbortSiblings(i, t, value) ==
  LET t2 == IF Ended(t) THEN [t EXCEPT !.permit = FALSE] ELSE t
      ts == [j \in DOMAIN tasks |->
               IF j = i THEN t2
               ELSE IF t.failed /\ ~Ended(tasks[j])
               THEN [tasks[j] EXCEPT !.pc = "raised", !.permit = FALSE]
               ELSE tasks[j]]
  IN /\ tasks' = ts
     /\ sem' = cpu_count - Held(ts)
     /\ failed_items' = IF t.failed THEN failed_items \cup {t.aweme_id}
                        ELSE failed_items
     /\ UNCHANGED <<opc, config, kw, page, aweme_list, aweme_details, batches>>

\* unit i has run up to its next await and is left as t; when the unit has
\* ended, the exit of "async with semaphore" has given its permit back
Put(i, t, value) ==
  LET t2 == IF Ended(t) THEN [t EXCEPT !.permit = FALSE] ELSE t
      ts == [tasks EXCEPT ![i] = t2]
  IN /\ tasks' = ts
     /\ sem' = IF Ended(t) /\ t.permit THEN value + 1 ELSE value
     /\ failed_items' = IF t.failed THEN failed_items \cup {t.aweme_id}
                        ELSE failed_items
     /\ UNCHANGED <<opc, config, kw, page, aweme_list, aweme_details, batches>>

\* the consumer of a harvest inside the orchestrator (the async for of
\* get_comments) logs the batch and asks for the next one at once
Drive(t) == IF t.pc = "yield" THEN LoopTop(t) ELSE t

InOrch == opc \in {"gather", "wait"}

\* the platform ends a harvest after this many pages
PageLimit == IF InOrch THEN 2 ELSE MaxPages

\* Acquire, had the units not waited for a permit
Acquire_NoGate(i) ==
  /\ InOrch
  /\ tasks[i].pc = "created"
  /\ LET t == [tasks[i] EXCEPT !.permit = TRUE]
     IN Put(i, IF t.kind = "detail"
               THEN BeginGet(t, DetailParams(t.aweme_id))
               ELSE LoopTop(t), sem - 1)

\* the task starts: "async with semaphore" takes a permit, then the unit
\* runs up to its first await
Acquire(i) ==
  /\ InOrch
  /\ tasks[i].pc = "created"
  /\ sem > 0
  /\ LET t == [tasks[i] EXCEPT !.permit = TRUE]
     IN Put(i, IF t.kind = "detail"
               THEN BeginGet(t, DetailParams(t.aweme_id))
               ELSE LoopTop(t), sem - 1)

\* the first request for a batch of a harvest called directly
HarvestBegin(i) ==
  /\ opc = "harvest"
  /\ tasks[i].pc = "created"
  /\ Put(i, LoopTop(tasks[i]), sem)

\* the local-storage read returns and the evaluator signs
Signed(i) ==
  /\ tasks[i].pc = "signing"
  /\ Put(i, SignAndSend(tasks[i]), sem)

\* the local-storage read raises: the evaluator is never called
StorageFails(i) ==
  /\ tasks[i].pc = "signing"
  /\ Put(i, Raise(tasks[i]), sem)

\* the evaluator raises
SigningFails(i) ==
  /\ tasks[i].pc = "signing"
  /\ Put(i, SignFails(tasks[i]), sem)

\* the transport raises, or the body is not JSON
TransportFails(i) ==
  /\ tasks[i].pc = "request"
  /\ Put(i, Raise(tasks[i]), sem)

\* a page of comments arrives
PageArrives(i) ==
  /\ tasks[i].pc = "request"
  /\ tasks[i].kind = "comments"
  /\ \E res \in (IF InOrch THEN OrchResponses ELSE HarvestResponses) :
       /\ Get(res, "has_more", 0) # 0 => Len(tasks[i].pages) + 1 < PageLimit
       /\ Put(i, OnPage(tasks[i], res), sem)

\* the detail of an item arrives
DetailArrives(i) ==
  /\ tasks[i].pc = "request"
  /\ tasks[i].kind = "detail"
  /\ \E res \in DetailResponses(tasks[i].aweme_id) :
       Put(i, OnDetail(tasks[i], res), sem)

\* the per-page callback returns
CallbackReturns(i) ==
  /\ tasks[i].pc = "callback"
  /\ Put(i, AfterCallback(tasks[i]), sem)

\* the per-page callback raises
CallbackFails(i) ==
  /\ tasks[i].pc = "callback"
  /\ Put(i, Raise(tasks[i]), sem)

\* the sleep between two pages is over
SleepReturns(i) ==
  /\ tasks[i].pc = "sleep"
  /\ Put(i, IF InOrch THEN Drive(YieldResult(tasks[i]))
            ELSE YieldResult(tasks[i]), sem)

\* the caller of a harvest asks for the next batch
Resume(i) ==
  /\ opc = "harvest"
  /\ tasks[i].pc = "yield"
  /\ Put(i, LoopTop(tasks[i]), sem)


(***************************************************************************)
(* The orchestrator: Crawler.start and what it awaits.                     *)
(***************************************************************************)
AllEnded == \A j \in DOMAIN tasks : Ended(tasks[j])

\* batch_get_note_comments up to "await asyncio.wait(task_list)";
\* asyncio.wait raises ValueError on an empty list and nothing catches it
BatchGetNoteComments(list) ==
  /\ aweme_list' = list
  /\ IF list = <<>>
     THEN /\ opc' = "crashed"
          /\ UNCHANGED <<tasks, sem>>
     ELSE /\ opc' = "wait"
          /\ tasks' = [j \in 1..Len(list) |-> NewTask("comments", list[j])]
          /\ sem' = cpu_count

\* Crawler.search: the while test of one keyword, then either the next
\* search call or the comment batch of the keyword
SearchLoop(k, pg, list) ==
  /\ kw' = k
  /\ page' = pg
  /\ IF (pg + 1) * dy_limit_count <= max_note_count
     THEN /\ opc' = "searching"
          /\ aweme_list' = list
          /\ UNCHANGED <<tasks, sem>>
     ELSE BatchGetNoteComments(list)

\* Crawler.start after the client is created, up to its first await
Start ==
  /\ opc = "start"
  /\ IF search_keywords # <<>>
     THEN SearchLoop(1, 0, <<>>)
     ELSE IF awemes # <<>>
     THEN /\ opc' = "gather"
          /\ aweme_list' = awemes
          /\ tasks' = [j \in 1..Len(awemes) |-> NewTask("detail", awemes[j])]
          /\ sem' = cpu_count
          /\ UNCHANGED <<kw, page>>
     ELSE /\ opc' = "finished"
          /\ UNCHANGED <<tasks, sem, kw, page, aweme_list>>
  /\ UNCHANGED <<config, aweme_details, batches, failed_items>>

\* search_info_by_keyword returns a page of posts
SearchReturns ==
  /\ opc = "searching"
  /\ \E posts \in Posts(aweme_list) :
       SearchLoop(kw, page + 1, aweme_list \o posts)
  /\ UNCHANGED <<config, aweme_details, batches, failed_items>>

\* search_info_by_keyword raises: logged, the keyword's list is cut short
SearchFails ==
  /\ opc = "searching"
  /\ BatchGetNoteComments(aweme_list)
  /\ UNCHANGED <<config, kw, page, aweme_details, batches, failed_items>>

\* asyncio.gather of the detail fetches returns; the comment batch follows
GatherReturns ==
  /\ opc = "gather"
  /\ AllEnded
  /\ aweme_details' = Some([j \in DOMAIN tasks |-> tasks[j].ret])
  /\ batches' = batches + 1
  /\ BatchGetNoteComments(aweme_list)
  /\ UNCHANGED <<config, kw, page, failed_items>>

\* asyncio.wait of the harvests returns
WaitReturns ==
  /\ opc = "wait"
  /\ AllEnded
  /\ batches' = batches + 1
  /\ IF search_keywords # <<>> /\ kw < Len(search_keywords)
     THEN SearchLoop(kw + 1, 0, <<>>)
     ELSE /\ opc' = "finished"
          /\ UNCHANGED <<tasks, sem, kw, page, aweme_list>>
  /\ UNCHANGED <<config, aweme_details, failed_items>>

(***************************************************************************)
(* Specifications.                                                         *)
(***************************************************************************)
\* a run of Crawler.start
Init ==
  /\ opc = "start"
  /\ tasks = <<>>
  /\ sem = 0
  /\ cpu_count \in 1..MaxPermits
  /\ \E c \in {<<Some(0), None>>, <<Some(1), Some(<< <<"a", "b">> >>)>>} :
       /\ max_comments = c[1]
       /\ keywords = c[2]
  /\ callback = FALSE
  /\ search_keywords \in SeqsUpTo({"k"}, MaxKeywords)
  /\ awemes \in AwemeLists
  /\ search_keywords # <<>> => awemes = <<>>
  /\ kw = 0
  /\ page = 0
  /\ aweme_list = <<>>
  /\ aweme_details = None
  /\ batches = 0
  /\ failed_items = {}
  /\ sign = NoCall
  /\ cookies = NoCall
  /\ slide = NoCall

Next ==
  \/ Start
  \/ SearchReturns
  \/ SearchFails
  \/ GatherReturns
  \/ WaitReturns
  \/ \E i \in DOMAIN tasks : Acquire(i)
  \/ \E i \in DOMAIN tasks : Signed(i)
  \/ \E i \in DOMAIN tasks : StorageFails(i)
  \/ \E i \in DOMAIN tasks : SigningFails(i)
  \/ \E i \in DOMAIN tasks : TransportFails(i)
  \/ \E i \in DOMAIN tasks : PageArrives(i)
  \/ \E i \in DOMAIN tasks : DetailArrives(i)
  \/ \E i \in DOMAIN tasks : SleepReturns(i)

Spec == Init /\ [][Next]_vars

\* one harvest, called directly with any arguments
InitHarvest ==
  /\ opc = "harvest"
  /\ tasks = <<NewTask("comments", 1)>>
  /\ sem = 0
  /\ cpu_count = 1
  /\ max_comments \in MaxCommentsChoices
  /\ keywords \in KeywordChoices
  /\ callback \in BOOLEAN
  /\ search_keywords = <<>>
  /\ awemes = <<>>
  /\ kw = 0
  /\ page = 0
  /\ aweme_list = <<1>>
  /\ aweme_details = None
  /\ batches = 0
  /\ failed_items = {}
  /\ sign = NoCall
  /\ cookies = NoCall
  /\ slide = NoCall

NextHarvest ==
  \/ HarvestBegin(1)
  \/ Signed(1)
  \/ StorageFails(1)
  \/ SigningFails(1)
  \/ TransportFails(1)
  \/ PageArrives(1)
  \/ CallbackReturns(1)
  \/ CallbackFails(1)
  \/ SleepReturns(1)
  \/ Resume(1)

SpecHarvest == InitHarvest /\ [][NextHarvest]_vars

\* a run of Crawler.start on a machine with one processing unit, so that a
\* batch of two items or more has units waiting at the gate, with a quota of
\* two comments per post and no keyword filter
InitGate ==
  /\ opc = "start"
  /\ tasks = <<>>
  /\ sem = 0
  /\ cpu_count = 1
  /\ max_comments = Some(2)
  /\ keywords = None
  /\ callback = FALSE
  /\ search_keywords \in SeqsUpTo({"k"}, MaxKeywords)
  /\ awemes \in AwemeLists
  /\ search_keywords # <<>> => awemes = <<>>
  /\ kw = 0
  /\ page = 0
  /\ aweme_list = <<>>
  /\ aweme_details = None
  /\ batches = 0
  /\ failed_items = {}
  /\ sign = NoCall
  /\ cookies = NoCall
  /\ slide = NoCall

\* the steps of the coroutine of Crawler.start itself
OrchStep ==
  \/ Start
  \/ SearchReturns
  \/ SearchFails
  \/ GatherReturns
  \/ WaitReturns

\* the steps of unit i of a batch
TaskStep(i) ==
  \/ Acquire(i)
  \/ StorageFails(i)
  \/ SigningFails(i)
  \/ Signed(i)
  \/ TransportFails(i)
  \/ PageArrives(i)
  \/ DetailArrives(i)
  \/ SleepReturns(i)

\* the event loop resumes a coroutine whose await has come back, and every
\* await of a unit comes back, with a result or with an exception
SpecGate ==
  /\ InitGate
  /\ [][Next]_vars
  /\ WF_vars(OrchStep)
  /\ \A i \in 1..MaxItems : WF_vars(i \in DOMAIN tasks /\ TaskStep(i))


(***************************************************************************)
(* Properties of the harvester, checked under SpecHarvest.                 *)
(***************************************************************************)
RECURSIVE SumSeq(_)
SumSeq(q) == IF q = <<>> THEN 0 ELSE Head(q) + SumSeq(Tail(q))

Positive(m) == ~IsNone(m) /\ Val(m) > 0
Unlimited(m) == IsNone(m) \/ Val(m) = 0
KeywordsGiven == ~IsNone(keywords) /\ Val(keywords) # <<>>
Text(c) == IF "text" \in DOMAIN c THEN c.text ELSE <<>>
MatchesKeyword(c) ==
  \E k \in 1..Len(Val(keywords)) : Contains(Text(c), Val(keywords)[k])
NonEmptyPages(t) == Cardinality({n \in 1..Len(t.pages) : t.pages[n] > 0})

\* C1: with a positive max_comments the collected count never exceeds it, the
\* comments of all batches yielded so far never exceed it, and the collected
\* count never decreases.
C1_QuotaNeverExceeded ==
  /\ [](\A j \in DOMAIN tasks :
          Positive(max_comments) =>
            /\ tasks[j].collected_comments_count <= Val(max_comments)
            /\ SumSeq(tasks[j].yields) <= Val(max_comments))
  /\ [][\A j \in DOMAIN tasks :
          tasks'[j].collected_comments_count >=
            tasks[j].collected_comments_count]_vars

\* a second page has been cut to the remaining quota of 3
C1_Witness ==
  \E j \in DOMAIN tasks :
    /\ max_comments = Some(3)
    /\ tasks[j].collected_comments_count = 3
    /\ Len(tasks[j].pages) >= 2
    /\ tasks[j].yields # <<>>
    /\ Len(tasks[j].result) < Len(tasks[j].comments)

\* C2: with a positive max_comments every collected comment has been yielded
\* when the harvest has returned, the batch of the page that reached the
\* quota included; pages of 15 and 10 comments with max_comments = 20 yield
\* batches of 15 and 5.
C2_QuotaPageYielded ==
  \A j \in DOMAIN tasks :
    (Positive(max_comments) /\ tasks[j].pc = "returned") =>
      /\ SumSeq(tasks[j].yields) = tasks[j].collected_comments_count
      /\ (/\ max_comments = Some(20)
          /\ ~KeywordsGiven
          /\ tasks[j].pages = <<15, 10>>) => tasks[j].yields = <<15, 5>>

\* C3: a yielded batch holds only comments whose text contains a keyword when
\* keywords are given, and is the raw page cut by the quota alone when not.
C3_YieldedBatchFiltered ==
  \A j \in DOMAIN tasks :
    tasks[j].pc = "yield" =>
      LET t == tasks[j]
          before == t.collected_comments_count - Len(t.result)
      IN IF KeywordsGiven
         THEN \A n \in 1..Len(t.result) : MatchesKeyword(t.result[n])
         ELSE t.result = IF Positive(max_comments)
                         THEN Slice(t.comments, Val(max_comments) - before)
                         ELSE t.comments

\* a yielded batch from which the keyword filter has removed a comment
C3_Witness ==
  \E j \in DOMAIN tasks :
    /\ tasks[j].pc = "yield"
    /\ KeywordsGiven
    /\ tasks[j].result # <<>>
    /\ Len(tasks[j].result) < Len(tasks[j].comments)

\* C4: with max_comments 0 or None a harvest fetches only while has_more is
\* set, returns only once has_more is unset, has then yielded one batch for
\* every non-empty page, each one the whole filtered page, and returns as
\* soon as the batch of the last page is taken.
C4_UnlimitedStopsOnHasMore ==
  /\ [](Unlimited(max_comments) =>
          \A j \in DOMAIN tasks :
            LET t == tasks[j]
            IN /\ t.pc = "returned" =>
                    /\ t.comments_has_more = 0
                    /\ Len(t.yields) = NonEmptyPages(t)
               /\ t.pc \in {"signing", "request"} => t.comments_has_more # 0
               /\ t.pc = "yield" =>
                    /\ t.result = SelectSeq(t.comments,
                                    LAMBDA c : KeywordsGiven => MatchesKeyword(c))
                    /\ t.yields[Len(t.yields)] = Len(t.result))
  /\ [][Unlimited(max_comments) =>
          \A j \in DOMAIN tasks :
            (tasks[j].pc = "yield" /\ tasks'[j] # tasks[j]) =>
               IF tasks[j].comments_has_more = 0
               THEN tasks'[j].pc = "returned"
               ELSE tasks'[j].pc = "signing"]_vars

\* an unlimited harvest has returned after the last allowed page with more
\* comments than any small quota
C4_Witness ==
  \E j \in DOMAIN tasks :
    /\ max_comments = Some(0)
    /\ tasks[j].pc = "returned"
    /\ Len(tasks[j].pages) = MaxPages
    /\ Len(tasks[j].yields) >= 2
    /\ tasks[j].collected_comments_count >= 4

\* C8: the first page request carries cursor 0; every later one is built
\* after the preceding response has arrived and carries the cursor that
\* response returned.
C8_CursorFromPlatform ==
  \A j \in DOMAIN tasks :
    (tasks[j].kind = "comments" /\ tasks[j].pc \in {"signing", "request"}) =>
      LET t == tasks[j]
      IN /\ t.built = Len(t.pages) + 1
         /\ IF t.built = 1
            THEN ParamCursor(t.params) = 0
            ELSE /\ "cursor" \in DOMAIN Val(t.comments_res)
                 /\ ParamCursor(t.params) = Val(t.comments_res).cursor


\* the two-page scenario alone: 15 comments, then 10, max_comments = 20
C2_ScenarioReached ==
  \E j \in DOMAIN tasks :
    /\ max_comments = Some(20)
    /\ ~KeywordsGiven
    /\ tasks[j].pc = "returned"
    /\ tasks[j].pages = <<15, 10>>
    /\ tasks[j].collected_comments_count = 20
    /\ tasks[j].yields = <<15>>

(***************************************************************************)
(* Properties of the orchestrator, checked under Spec.                     *)
(***************************************************************************)
\* the units of work that hold a fetch or a harvest open
InFlight(ts) == {j \in DOMAIN ts : ts[j].pc \notin {"created", "returned", "raised"}}

\* unit j has begun a request, called the evaluator or transmitted in this step
Requests(j) ==
  /\ j \in DOMAIN tasks
  /\ j \in DOMAIN tasks'
  /\ \/ tasks'[j].built > tasks[j].built
     \/ tasks'[j].evals > tasks[j].evals
     \/ tasks'[j].sends > tasks[j].sends

\* C5: at most cpu_count detail fetches or harvests are in flight at any
\* instant of a run, whatever the phase and the interleaving.
C5_ConcurrencyCeiling == Cardinality(InFlight(tasks)) <= cpu_count

\* the gate is full in a comment batch that follows another batch, and a
\* unit is waiting for a permit
C5_Witness ==
  /\ opc = "wait"
  /\ batches >= 1
  /\ Len(tasks) > cpu_count
  /\ Cardinality(InFlight(tasks)) = cpu_count
  /\ \E j \in DOMAIN tasks : tasks[j].pc = "created"

\* C6: the permits held and the permits free always add up to cpu_count, so
\* every unit gives its permit back exactly once however it ends, and all
\* permits are free once every unit of a batch has ended.
C6_PermitsBalanced ==
  /\ sem >= 0
  /\ tasks # <<>> =>
       /\ sem + Cardinality(InFlight(tasks)) = cpu_count
       /\ AllEnded => sem = cpu_count
       /\ \A j \in DOMAIN tasks :
            tasks[j].permit <=> j \in InFlight(tasks)

\* a batch has ended with a failed and a successful unit and every permit free
C6_Witness ==
  /\ InOrch
  /\ AllEnded
  /\ sem = cpu_count
  /\ \E j, k \in DOMAIN tasks :
       /\ tasks[j].failed /\ tasks[j].sends > 0
       /\ tasks[k].pc = "returned" /\ tasks[k].sends > 0

\* C7: the failure of one unit changes no other unit; a batch returns only
\* when every unit has ended, and then returns normally; the detail list
\* holds None at the place of each failed item and at every other place what
\* the platform returned for that item; a unit that has not ended can
\* always go on or is waiting for a permit that a running unit holds.
C7_FailureIsolated ==
  /\ [][\A i \in DOMAIN tasks :
          (i \in DOMAIN tasks' /\ ~tasks[i].failed /\ tasks'[i].failed) =>
             \A j \in DOMAIN tasks \ {i} : tasks'[j] = tasks[j]]_vars
  /\ [][(opc \in {"gather", "wait"} /\ opc' # opc) =>
          /\ AllEnded
          /\ opc' \in {"wait", "searching", "finished"}
          /\ batches' = batches + 1]_vars
  /\ [][(opc = "gather" /\ opc' # opc) =>
          /\ aweme_details' =
               Some([j \in 1..Len(aweme_list) |->
                       IF tasks[j].failed THEN PyNone ELSE tasks[j].ret])
          /\ \A j \in DOMAIN tasks :
               ~tasks[j].failed =>
                  tasks[j].ret \in {<<"detail", aweme_list[j]>>, EmptyDict, PyNone}]_vars
  /\ []((InOrch /\ ~AllEnded) => (InFlight(tasks) # {} \/ sem > 0))

\* the detail list of a run in which the fetch of one item failed and the
\* fetch of another did not
C7_Witness ==
  /\ aweme_details # None
  /\ opc = "finished"
  /\ \E j, k \in 1..Len(aweme_list) :
       /\ aweme_list[j] \in failed_items
       /\ aweme_list[k] \notin failed_items
       /\ Val(aweme_details)[j] = PyNone
       /\ Val(aweme_details)[k] = <<"detail", aweme_list[k]>>

C10_SignedOnce ==
  \A j \in DOMAIN tasks :
    LET t == tasks[j]
        fresh == IF t.kind = "detail" THEN DetailParams(t.aweme_id)
                 ELSE CommentParams(t.aweme_id, t.comments_cursor)
        unsigned == SubSeq(t.params, 1, Len(t.params) - 1)
    IN /\ t.signed <= 1
       /\ t.sent <= 1
       /\ t.sends <= t.built
       /\ t.pc = "signing" => t.params = fresh /\ t.signed = 0 /\ t.sent = 0
       /\ t.pc = "request" =>
            /\ t.signed = 1
            /\ t.sent = 1
            /\ SubSeq(unsigned, 1, Len(fresh)) = fresh
            /\ "X-Bogus" \notin Keys(unsigned)
            /\ t.params[Len(t.params)] =
                 <<"X-Bogus", Evaluator(Query(unsigned), user_agent)>>

\* the second page request of a harvest is in transmission while another
\* unit has a request of its own in transmission
C10_Witness ==
  \E j, k \in DOMAIN tasks :
    /\ j # k
    /\ tasks[j].pc = "request" /\ tasks[j].built = 2
    /\ tasks[k].pc = "request"


(***************************************************************************)
(* Client.__process_req_params called on its own, with any parameter map.  *)
(***************************************************************************)
\* no crawler run is under way
CrawlIdle ==
  /\ opc = "none"
  /\ tasks = <<>>
  /\ sem = 0
  /\ cpu_count = 1
  /\ max_comments = None
  /\ keywords = None
  /\ callback = FALSE
  /\ search_keywords = <<>>
  /\ awemes = <<>>
  /\ kw = 0
  /\ page = 0
  /\ aweme_list = <<>>
  /\ aweme_details = None
  /\ batches = 0
  /\ failed_items = {}

\* the entries a caller may put in a parameter map; "aid" is also a platform
\* constant and "X-Bogus" is the signature field
ParamEntries ==
  {<<"aweme_id", "7">>, <<"aweme_id", "8">>, <<"cursor", "0">>,
   <<"cursor", "15">>, <<"aid", "1">>, <<"aid", "6383">>,
   <<"X-Bogus", <<"sign", <<>>, "old">>>>}

\* the params argument: None, or a dict of up to two entries
ParamChoices ==
  {None, Some(<<>>)} \cup
  {Some(<<e>>) : e \in ParamEntries} \cup
  {Some(<<ef[1], ef[2]>>) :
     ef \in {gh \in ParamEntries \X ParamEntries : gh[1][1] # gh[2][1]}}

\* the headers argument: None, or headers with a User-Agent of their own
HeaderChoices == {None, Some("curl/8")}

\* "not params"
Falsy(params) == IsNone(params) \/ Val(params) = <<>>

\* (headers or self.headers)["User-Agent"]
UserAgentOf(headers) == IF IsNone(headers) THEN user_agent ELSE Val(headers)

InitSign ==
  /\ CrawlIdle
  /\ \E params \in ParamChoices, headers \in HeaderChoices :
       sign = [pc |-> "call", params |-> params, headers |-> headers,
               arg |-> params,    \* history: the map as it was passed
               evals |-> 0]       \* history: evaluator invocations
  /\ cookies = NoCall
  /\ slide = NoCall

\* the call up to the return on a falsy map, or up to the local-storage read
ProcessCall ==
  /\ sign.pc = "call"
  /\ sign' = [sign EXCEPT !.pc = IF Falsy(sign.params) THEN "returned"
                                 ELSE "storage"]
  /\ UNCHANGED <<crawl, cookies, slide>>

\* the local-storage read returns: merge, serialise, sign, store
LocalStorageReturns ==
  /\ sign.pc = "storage"
  /\ sign' = [sign EXCEPT
                !.params = Some(ProcessReqParams(Val(sign.params),
                                                 UserAgentOf(sign.headers))),
                !.evals = @ + 1,
                !.pc = "returned"]
  /\ UNCHANGED <<crawl, cookies, slide>>

\* the local-storage read raises
LocalStorageFails ==
  /\ sign.pc = "storage"
  /\ sign' = [sign EXCEPT !.pc = "raised"]
  /\ UNCHANGED <<crawl, cookies, slide>>

\* the evaluator raises: the constants are merged already, in place
EvaluatorFails ==
  /\ sign.pc = "storage"
  /\ sign' = [sign EXCEPT
                !.params = Some(DictUpdate(Val(sign.params), common_params)),
                !.evals = @ + 1,
                !.pc = "raised"]
  /\ UNCHANGED <<crawl, cookies, slide>>

NextSign ==
  \/ ProcessCall
  \/ LocalStorageReturns
  \/ LocalStorageFails
  \/ EvaluatorFails

SpecSign == InitSign /\ [][NextSign]_vars

(***************************************************************************)
(* The client's cookies: utils.convert_cookies, the snapshot taken by      *)
(* Crawler.create_douyin_client and Client.update_cookies.  A cookie is    *)
(* <<name, value>>; the browser may hold two cookies of one name (for two  *)
(* paths).  A string is the sequence of its pieces.                        *)
(***************************************************************************)
CookieNames == {"sid", "LOGIN_STATUS"}
CookieValues == {"0", "1"}
CookieLists == SeqsUpTo(CookieNames \X CookieValues, MaxCookies)

RECURSIVE Join(_)
\* ";".join(f"{name}={value}" ...)
Join(cs) ==
  IF cs = <<>> THEN <<>>
  ELSE IF Len(cs) = 1 THEN <<cs[1][1], "=", cs[1][2]>>
  ELSE <<cs[1][1], "=", cs[1][2], ";">> \o Join(Tail(cs))

\* utils.convert_cookies: the header string and the dict of one cookie list
ConvertCookies(cs) ==
  IF cs = <<>> THEN [cookie_str |-> <<>>, cookie_dict |-> <<>>]
  ELSE [cookie_str |-> Join(cs), cookie_dict |-> DictUpdate(<<>>, cs)]

\* UpdateCookies, had the refresh patched the dict it already held
UpdateCookies_Patch(c, cs) ==
  LET conv == ConvertCookies(cs)
  IN [c EXCEPT !.pc = "idle",
               !.header = conv.cookie_str,
               !.cookie_dict = DictUpdate(@, conv.cookie_dict),
               !.dropped = \E e \in Keys(c.snapshot) : e \notin Keys(cs),
               !.refreshed = TRUE,
               !.snapshot = cs]

\* Client.update_cookies once browser_context.cookies() has returned cs
UpdateCookies(c, cs) ==
  LET conv == ConvertCookies(cs)
  IN [c EXCEPT !.pc = "idle",
               !.header = conv.cookie_str,
               !.cookie_dict = conv.cookie_dict,
               !.dropped = \E e \in Keys(c.snapshot) : e \notin Keys(cs),
               !.refreshed = TRUE,
               !.snapshot = cs]

\* the client as Crawler.create_douyin_client has built it
InitCookies ==
  /\ CrawlIdle
  /\ sign = NoCall
  /\ slide = NoCall
  /\ \E cs \in CookieLists :
       cookies = [pc |-> "idle",
                  browser |-> cs,                      \* the browser's cookies
                  header |-> ConvertCookies(cs).cookie_str,   \* headers["Cookie"]
                  cookie_dict |-> ConvertCookies(cs).cookie_dict,
                  snapshot |-> cs,      \* history: the list read last
                  refreshed |-> FALSE,  \* history: a refresh has returned
                  dropped |-> FALSE]    \* history: the last refresh lost a name

\* the browser session adds, removes or changes cookies
BrowserChanges ==
  /\ cookies.pc # "none"
  /\ \E cs \in CookieLists \ {cookies.browser} :
       cookies' = [cookies EXCEPT !.browser = cs]
  /\ UNCHANGED <<crawl, sign, slide>>

\* Client.update_cookies up to the await of browser_context.cookies()
UpdateCookiesCall ==
  /\ cookies.pc = "idle"
  /\ cookies' = [cookies EXCEPT !.pc = "reading"]
  /\ UNCHANGED <<crawl, sign, slide>>

\* browser_context.cookies() returns: both fields are assigned
CookiesReturn ==
  /\ cookies.pc = "reading"
  /\ cookies' = UpdateCookies(cookies, cookies.browser)
  /\ UNCHANGED <<crawl, sign, slide>>

\* browser_context.cookies() raises: nothing is assigned
CookiesFail ==
  /\ cookies.pc = "reading"
  /\ cookies' = [cookies EXCEPT !.pc = "idle"]
  /\ UNCHANGED <<crawl, sign, slide>>

NextCookies ==
  \/ BrowserChanges
  \/ UpdateCookiesCall
  \/ CookiesReturn
  \/ CookiesFail

SpecCookies == InitCookies /\ [][NextCookies]_vars

(***************************************************************************)
(* The drag trajectories of utils.py: get_tracks, get_track_simple and     *)
(* _get_tracks.  The code computes in binary floating point; the model     *)
(* computes the same quantities exactly, as integers: current in units of  *)
(* 1/50 and v in units of 1/5 (t = 0.2 makes every v a multiple of 0.2 and *)
(* every move a multiple of 0.02).  Where the exact value sits on a        *)
(* boundary (a comparison of equal values, a rounding of an exact half)    *)
(* the float's representation error decides, and the model takes either    *)
(* outcome.                                                                *)
(***************************************************************************)
\* the distances of the verification scenarios
ScenarioDistances == {10, 100, 300, 1000}

Distances == (1..MaxDistance) \cup ScenarioDistances

\* a < b on floats whose exact values are a and b
Less(a, b) == IF a < b THEN {TRUE} ELSE IF a > b THEN {FALSE} ELSE BOOLEAN

\* round(num / den) for den > 0
Round(num, den) ==
  LET q == num \div den
      r == num % den
  IN IF 2 * r < den THEN {q} ELSE IF 2 * r > den THEN {q + 1} ELSE {q, q + 1}

RECURSIVE Pow2(_)
Pow2(n) == IF n = 0 THEN 1 ELSE 2 * Pow2(n - 1)

\* round(ease_out_expo(k / 20) * distance), where
\* ease_out_expo(x) = 1 - 2 ** (-10 * x) for x < 1.  For k = 2m the value is
\* distance * (2^m - 1) / 2^m; for k = 2m + 1 it is distance - y with
\* y = distance / (2^m * sqrt(2)), and the integer r nearest to y is the one
\* with (2r - 1)^2 * 4^m < 2 * distance^2 < (2r + 1)^2 * 4^m.
ease_out_expo(k, distance) ==
  LET m == k \div 2
  IN IF k % 2 = 0
     THEN Round(distance * (Pow2(m) - 1), Pow2(m))
     ELSE {distance - r : r \in
             {r \in 0..(distance \div Pow2(m) + 1) :
                /\ r > 0 => (2 * r - 1) * (2 * r - 1) * Pow2(2 * m)
                              < 2 * distance * distance
                /\ 2 * distance * distance
                     < (2 * r + 1) * (2 * r + 1) * Pow2(2 * m)}}

\* np.arange(0.0, seconds, 0.1) with seconds = 2: the samples 0.0 .. 1.9
Samples == 20

\* the initial speed v = 1, in units of 1/5
v_initial == 5

\* get_tracks(distance, level) is called
InitSlide ==
  /\ CrawlIdle
  /\ sign = NoCall
  /\ cookies = NoCall
  /\ \E distance \in Distances, level \in {"easy", "hard"} :
       slide = [pc |-> "call", level |-> level, distance |-> distance,
                track |-> <<>>, current |-> 0, v |-> v_initial,
                k |-> 0, offset |-> 0,
                boundary |-> FALSE]  \* history: a value has sat on a boundary

\* get_tracks: the choice of the policy
GetTracks ==
  /\ slide.pc = "call"
  /\ slide' = IF slide.level = "easy"
              THEN [slide EXCEPT !.pc = "simple"]
              ELSE [slide EXCEPT !.pc = "import"]
  /\ UNCHANGED <<crawl, sign, cookies>>

\* one turn of the while loop of get_track_simple
SimpleStep ==
  /\ slide.pc = "simple"
  /\ TRUE \in Less(slide.current, 50 * slide.distance)
  /\ \E accelerate \in Less(slide.current, 40 * slide.distance) :
       LET a == IF accelerate THEN 4 ELSE -3
           v0 == slide.v
           move == 2 * v0 + a
       IN \E rounded \in Round(move, 50) :
            slide' = [slide EXCEPT
                        !.v = v0 + a,
                        !.current = @ + move,
                        !.track = Append(@, rounded),
                        !.boundary =
                           \/ @
                           \/ Less(slide.current, 50 * slide.distance) = BOOLEAN
                           \/ Less(slide.current, 40 * slide.distance) = BOOLEAN
                           \/ Round(move, 50) # {rounded}]
  /\ UNCHANGED <<crawl, sign, cookies>>

\* the while test of get_track_simple fails: the track is returned
SimpleReturns ==
  /\ slide.pc = "simple"
  /\ FALSE \in Less(slide.current, 50 * slide.distance)
  /\ slide' = [slide EXCEPT
                !.pc = "returned",
                !.boundary =
                   @ \/ Less(slide.current, 50 * slide.distance) = BOOLEAN]
  /\ UNCHANGED <<crawl, sign, cookies>>

\* "from . import easing" finds the module: tracks = [0], offsets = [0]
EasingImported ==
  /\ slide.pc = "import"
  /\ slide' = [slide EXCEPT !.pc = "eased", !.track = <<0>>]
  /\ UNCHANGED <<crawl, sign, cookies>>

\* "from . import easing" raises ImportError
EasingImportFails ==
  /\ slide.pc = "import"
  /\ slide' = [slide EXCEPT !.pc = "raised"]
  /\ UNCHANGED <<crawl, sign, cookies>>

\* one turn of the for loop of _get_tracks
EasedStep ==
  /\ slide.pc = "eased"
  /\ slide.k < Samples
  /\ \E offset \in ease_out_expo(slide.k, slide.distance) :
       slide' = [slide EXCEPT
                   !.track = Append(@, offset - slide.offset),
                   !.offset = offset,
                   !.k = @ + 1,
                   !.boundary =
                      @ \/ ease_out_expo(slide.k, slide.distance) # {offset}]
  /\ UNCHANGED <<crawl, sign, cookies>>

\* the samples are used up: the track is returned
EasedReturns ==
  /\ slide.pc = "eased"
  /\ slide.k = Samples
  /\ slide' = [slide EXCEPT !.pc = "returned"]
  /\ UNCHANGED <<crawl, sign, cookies>>

NextSlide ==
  \/ GetTracks
  \/ SimpleStep
  \/ SimpleReturns
  \/ EasingImported
  \/ EasingImportFails
  \/ EasedStep
  \/ EasedReturns

SpecSlide == InitSlide /\ [][NextSlide]_vars

(***************************************************************************)
(* Slide.clear_white: the crop of the gap image.  An image is a function   *)
(* from <<x, y>> (row, column, from 0) to a pixel, a pixel the sequence of *)
(* its channel values.  The crop is given by the rows and the columns it   *)
(* keeps.                                                                  *)
(***************************************************************************)
\* a pixel whose channels are all the same, and one with two channel values
Pixels == {<<255, 255, 255>>, <<30, 30, 200>>}

Images(rows, cols) == [(0..(rows - 1)) \X (0..(cols - 1)) -> Pixels]

\* len(set(img[x, y]))
ChannelValues(pixel) == Cardinality({pixel[n] : n \in 1..Len(pixel)})

\* the indices n of a dimension of length len that the slice [lo:hi] keeps
SliceIndices(lo, hi, len) == {n \in 0..(len - 1) : lo <= n /\ n < hi}

\* clear_white after cv2.imread, before the first turn of the loops
InitClearWhite ==
  /\ CrawlIdle
  /\ sign = NoCall
  /\ cookies = NoCall
  /\ \E rows \in 1..MaxSide, cols \in 1..MaxSide :
       \E img \in Images(rows, cols) :
         slide = [pc |-> "scan", img |-> img, rows |-> rows, cols |-> cols,
                  min_x |-> 255, min_y |-> 255, max_x |-> 0, max_y |-> 0,
                  x |-> 1, y |-> 1,
                  img1 |-> None]

\* one turn of the inner loop: the pixel at row x, column y
ClearWhiteScan ==
  /\ slide.pc = "scan"
  /\ slide.x < slide.rows
  /\ slide.y < slide.cols
  /\ LET x == slide.x
         y == slide.y
         hit == ChannelValues(slide.img[<<x, y>>]) >= 2
         last == y + 1 >= slide.cols
     IN slide' = [slide EXCEPT
                    !.min_x = IF hit /\ x <= @ THEN x ELSE @,
                    !.max_x = IF hit /\ ~(x <= slide.min_x) /\ x >= @
                              THEN x ELSE @,
                    !.min_y = IF hit /\ y <= @ THEN y ELSE @,
                    !.max_y = IF hit /\ ~(y <= slide.min_y) /\ y >= @
                              THEN y ELSE @,
                    !.x = IF last THEN x + 1 ELSE x,
                    !.y = IF last THEN 1 ELSE y + 1]
  /\ UNCHANGED <<crawl, sign, cookies>>

\* the loops are over: img[min_x:max_x, min_y:max_y] is returned
ClearWhiteReturns ==
  /\ slide.pc = "scan"
  /\ ~(slide.x < slide.rows /\ slide.y < slide.cols)
  /\ slide' = [slide EXCEPT
                 !.pc = "returned",
                 !.img1 = Some([xs |-> SliceIndices(slide.min_x, slide.max_x,
                                                    slide.rows),
                                ys |-> SliceIndices(slide.min_y, slide.max_y,
                                                    slide.cols)])]
  /\ UNCHANGED <<crawl, sign, cookies>>

NextClearWhite ==
  \/ ClearWhiteScan
  \/ ClearWhiteReturns

SpecClearWhite == InitClearWhite /\ [][NextClearWhite]_vars

(***************************************************************************)
(* The session: the start-up of Crawler.start (client creation, login     *)
(* probe, login, cookie refresh) and then the requests of Client that read *)
(* the shared header map.  The variable cookies holds the client here; its *)
(* fields after "reqs" are history and steer nothing.                      *)
(***************************************************************************)
\* the cookie lists the browser may hold in a session
SessionCookieLists ==
  {<<>>,
   << <<"LOGIN_STATUS", "0">> >>,
   << <<"LOGIN_STATUS", "1">> >>,
   << <<"sid", "1">>, <<"LOGIN_STATUS", "1">> >>}

LoginPhones == {None, Some("13800000000")}

\* the header map Crawler.create_douyin_client gives the client
ClientHeaders(cookie_str) ==
  << <<"User-Agent", <<user_agent>> >>,
     <<"Cookie", cookie_str>>,
     <<"Host", <<"www.douyin.com">> >>,
     <<"Origin", <<"https://www.douyin.com/">> >>,
     <<"Referer", <<"https://www.douyin.com/">> >>,
     <<"Content-Type", <<"application/json;charset=UTF-8">> >> >>

\* d[k]
DictValue(d, k) == d[DictGet(d, k)][2]

\* del d[k]
DictDel(d, k) == SelectSeq(d, LAMBDA e : e[1] # k)

\* d.get(k) == v
DictHas(d, k, v) == \E j \in 1..Len(d) : d[j] = <<k, v>>

\* the default of request_keyword_var, which nothing sets
request_keyword == ""

\* the search page address get_aweme_comments builds, token by token
RefererUrl(keyword) ==
  <<"https://www.douyin.com/search/", keyword, "?",
    "aid", "=", "3a3cec5a-9e27-4040-b6aa-ef548c2c1138", "&",
    "publish_time", "=", "0", "&", "sort_type", "=", "0", "&",
    "source", "=", "search_history", "&", "type", "=", "general">>

\* urllib.parse.quote(url, safe=":/")
Quote(url) ==
  [j \in DOMAIN url |->
     IF url[j] = "?" THEN "%3F"
     ELSE IF url[j] = "=" THEN "%3D"
     ELSE IF url[j] = "&" THEN "%26"
     ELSE url[j]]

\* headers or self.headers
HeadersOr(headers, shared) == IF Falsy(headers) THEN shared ELSE Val(headers)

\* a request of the client, suspended in __process_req_params
NewRequest(kind, headers, local) ==
  [kind |-> kind,
   pc |-> "signing",
   headers |-> headers,   \* the headers argument of Client.get
   local |-> local,       \* the copy the caller has built
   sent |-> None]         \* history: the header map that was transmitted

\* GetVideoById, had the header map been changed in place
GetVideoById_InPlace(c) ==
  LET headers == DictDel(c.headers, "Origin")
  IN [c EXCEPT !.headers = headers,
               !.reqs = Append(@, NewRequest("detail", Some(headers), headers))]

\* Client.get_video_by_id up to the first await of Client.get
GetVideoById(c) ==
  LET headers == DictDel(c.headers, "Origin")
  IN [c EXCEPT !.reqs = Append(@, NewRequest("detail", Some(headers), headers))]

\* Client.get_aweme_comments up to the first await of Client.get: the copy
\* that carries the Referer is not passed on
GetAwemeComments(c) ==
  LET headers == DictSet(c.headers, "Referer",
                         Quote(RefererUrl(request_keyword)))
  IN [c EXCEPT !.reqs = Append(@, NewRequest("comments", None, headers))]

\* Client.get after the signing, up to the await of the transport
ClientGet(c, i) ==
  [c EXCEPT !.reqs[i].pc = "request",
            !.reqs[i].sent = Some(HeadersOr(c.reqs[i].headers, c.headers))]

\* AfterLogin, had the refresh been left out
AfterLogin_NoRefresh(c, cs) ==
  [c EXCEPT !.pc = "run", !.browser = cs, !.logins = @ + 1]

\* Login.begin has returned, having left the cookie list cs in the browser:
\* Crawler.start calls update_cookies, which awaits the browser's cookies
AfterLogin(c, cs) ==
  [c EXCEPT !.pc = "refresh", !.browser = cs, !.logins = @ + 1]

\* Client.update_cookies on the shared map once the cookies have been read
RefreshCookies(c) ==
  LET conv == ConvertCookies(c.browser)
  IN [c EXCEPT !.pc = "run",
               !.headers = DictSet(@, "Cookie", conv.cookie_str),
               !.cookie_dict = conv.cookie_dict,
               !.latest = conv.cookie_str,
               !.refreshes = @ + 1]

RequestsInFlight(c) ==
  {i \in DOMAIN c.reqs : c.reqs[i].pc \in {"signing", "request"}}

\* Crawler.start awaits the browser's cookies in create_douyin_client
InitSession ==
  /\ CrawlIdle
  /\ sign = NoCall
  /\ slide = NoCall
  /\ \E phone \in LoginPhones, cs \in SessionCookieLists :
       cookies = [pc |-> "create",
                  login_phone |-> phone,
                  browser |-> cs,
                  headers |-> <<>>,
                  cookie_dict |-> <<>>,
                  reqs |-> <<>>,
                  latest |-> <<>>,     \* history: the Cookie string set last
                  probe |-> "none",    \* history: what pong has answered
                  logins |-> 0,        \* history: login flows completed
                  refreshes |-> 0]     \* history: refreshes completed

\* the client is built; without a login phone the targets are worked on,
\* else pong awaits the browser's cookies
CreateDouyinClient ==
  /\ cookies.pc = "create"
  /\ LET conv == ConvertCookies(cookies.browser)
     IN cookies' = [cookies EXCEPT
                      !.pc = IF IsNone(cookies.login_phone) THEN "run"
                             ELSE "pong",
                      !.headers = ClientHeaders(conv.cookie_str),
                      !.cookie_dict = conv.cookie_dict,
                      !.latest = conv.cookie_str]
  /\ UNCHANGED <<crawl, sign, slide>>

\* pong answers: logged in, or the login flow is begun
PongReturns ==
  /\ cookies.pc = "pong"
  /\ LET logged == DictHas(ConvertCookies(cookies.browser).cookie_dict,
                           "LOGIN_STATUS", "1")
     IN cookies' = [cookies EXCEPT !.pc = IF logged THEN "run" ELSE "login",
                                   !.probe = IF logged THEN "in" ELSE "out"]
  /\ UNCHANGED <<crawl, sign, slide>>

\* the login flow returns
LoginReturns ==
  /\ cookies.pc = "login"
  /\ \E cs \in SessionCookieLists : cookies' = AfterLogin(cookies, cs)
  /\ UNCHANGED <<crawl, sign, slide>>

\* the login flow fails, or reading the browser's cookies does: the
\* exception leaves Crawler.start
StartFails ==
  /\ cookies.pc \in {"create", "pong", "login", "refresh"}
  /\ cookies' = [cookies EXCEPT !.pc = "crashed"]
  /\ UNCHANGED <<crawl, sign, slide>>

\* update_cookies has read the browser's cookies
RefreshReturns ==
  /\ cookies.pc = "refresh"
  /\ cookies' = RefreshCookies(cookies)
  /\ UNCHANGED <<crawl, sign, slide>>

\* the site changes the cookies of the open page
SiteSetsCookies ==
  /\ cookies.pc \in {"pong", "run"}
  /\ \E cs \in SessionCookieLists \ {cookies.browser} :
       cookies' = [cookies EXCEPT !.browser = cs]
  /\ UNCHANGED <<crawl, sign, slide>>

\* a unit of a batch asks for the detail of a post
DetailRequest ==
  /\ cookies.pc = "run"
  /\ Len(cookies.reqs) < MaxRequests
  /\ cookies' = GetVideoById(cookies)
  /\ UNCHANGED <<crawl, sign, slide>>

\* a unit of a batch asks for a page of comments
CommentsRequest ==
  /\ cookies.pc = "run"
  /\ Len(cookies.reqs) < MaxRequests
  /\ cookies' = GetAwemeComments(cookies)
  /\ UNCHANGED <<crawl, sign, slide>>

\* the signing of request i is done and the request is transmitted
RequestSigned(i) ==
  /\ cookies.pc = "run"
  /\ cookies.reqs[i].pc = "signing"
  /\ cookies' = ClientGet(cookies, i)
  /\ UNCHANGED <<crawl, sign, slide>>

\* the signing or the transport of request i raises
RequestFails(i) ==
  /\ cookies.pc = "run"
  /\ cookies.reqs[i].pc \in {"signing", "request"}
  /\ cookies' = [cookies EXCEPT !.reqs[i].pc = "raised"]
  /\ UNCHANGED <<crawl, sign, slide>>

\* the response of request i arrives
ResponseArrives(i) ==
  /\ cookies.pc = "run"
  /\ cookies.reqs[i].pc = "request"
  /\ cookies' = [cookies EXCEPT !.reqs[i].pc = "done"]
  /\ UNCHANGED <<crawl, sign, slide>>

\* the batches have returned
StartReturns ==
  /\ cookies.pc = "run"
  /\ RequestsInFlight(cookies) = {}
  /\ cookies' = [cookies EXCEPT !.pc = "finished"]
  /\ UNCHANGED <<crawl, sign, slide>>

NextSession ==
  \/ CreateDouyinClient
  \/ PongReturns
  \/ LoginReturns
  \/ StartFails
  \/ RefreshReturns
  \/ SiteSetsCookies
  \/ DetailRequest
  \/ CommentsRequest
  \/ \E i \in DOMAIN cookies.reqs : RequestSigned(i)
  \/ \E i \in DOMAIN cookies.reqs : RequestFails(i)
  \/ \E i \in DOMAIN cookies.reqs : ResponseArrives(i)
  \/ StartReturns

SpecSession == InitSession /\ [][NextSession]_vars

(***************************************************************************)
(* Properties of the signing routine, checked under SpecSign.              *)
(***************************************************************************)
\* the place of key k in the dict d
IndexOf(d, k) == CHOOSE j \in 1..Len(d) : d[j][1] = k

\* C11: when the routine has returned from a non-empty map, the map holds the
\* caller's keys in the caller's order, then the platform constants the
\* caller had not set in their own order, then the signature field unless the
\* caller had set one; every constant has the platform's value, every other
\* caller entry the caller's value; there is one signature field and its
\* value is the evaluator's output for the user agent and the key=value
\* string over the map as it was before the signature was stored; the
\* evaluator has been called once.  From None or an empty map the routine
\* returns the argument as it was and the evaluator has not been called.
C11_SignedMapIsMergePlusSignature ==
  sign.pc = "returned" =>
    IF Falsy(sign.arg)
    THEN sign.params = sign.arg /\ sign.evals = 0
    ELSE LET p == Val(sign.arg)
             r == Val(sign.params)
             added == SelectSeq(common_params, LAMBDA c : c[1] \notin Keys(p))
             n == Len(p) + Len(added)
             x == IndexOf(r, "X-Bogus")
             before == IF "X-Bogus" \in Keys(p)
                       THEN [r EXCEPT ![x] = p[IndexOf(p, "X-Bogus")]]
                       ELSE SubSeq(r, 1, n)
         IN /\ sign.evals = 1
            /\ Len(r) = IF "X-Bogus" \in Keys(p) THEN n ELSE n + 1
            /\ \A j \in 1..Len(p) : r[j][1] = p[j][1]
            /\ \A j \in 1..Len(added) : r[Len(p) + j] = added[j]
            /\ \A j \in 1..Len(common_params) :
                 r[IndexOf(r, common_params[j][1])] = common_params[j]
            /\ \A j \in 1..Len(p) :
                 (p[j][1] \notin Keys(common_params) /\ p[j][1] # "X-Bogus")
                    => r[j] = p[j]
            /\ Cardinality({j \in 1..Len(r) : r[j][1] = "X-Bogus"}) = 1
            /\ r[x][2] = Evaluator(Query(before), UserAgentOf(sign.headers))

\* the routine has returned from a map of two entries, one of them a key the
\* platform constants set as well, signed for headers of the caller's own
C11_Witness ==
  /\ sign.pc = "returned"
  /\ ~Falsy(sign.arg)
  /\ Len(Val(sign.arg)) = 2
  /\ "aid" \in Keys(Val(sign.arg))
  /\ "X-Bogus" \notin Keys(Val(sign.arg))
  /\ ~IsNone(sign.headers)
  /\ Len(Val(sign.params)) = 18

(***************************************************************************)
(* Properties of the client's cookies, checked under SpecCookies.          *)
(***************************************************************************)
\* the last place of name n in the cookie list cs
LastOf(cs, n) ==
  CHOOSE j \in 1..Len(cs) :
    cs[j][1] = n /\ \A k \in (j + 1)..Len(cs) : cs[k][1] # n

\* C12: in every state the Cookie header and the cookie dict are those of
\* one cookie list, the one read by the latest refresh or by the
\* construction of the client: the header is name=value of every cookie of
\* the list in order, joined by ";", and the dict holds the names of the list
\* and no other, each with the value of its last cookie; the two change only
\* in the step in which a refresh returns, and then to the list the browser
\* holds in that step.
C12_CookieFieldsOfOneList ==
  /\ [](cookies.pc # "none" =>
         LET c == cookies
             cs == c.snapshot
         IN /\ Len(c.header) = IF cs = <<>> THEN 0 ELSE 4 * Len(cs) - 1
            /\ \A j \in 1..Len(cs) :
                 /\ c.header[4 * j - 3] = cs[j][1]
                 /\ c.header[4 * j - 2] = "="
                 /\ c.header[4 * j - 1] = cs[j][2]
                 /\ j < Len(cs) => c.header[4 * j] = ";"
            /\ Keys(c.cookie_dict) = Keys(cs)
            /\ Len(c.cookie_dict) = Cardinality(Keys(cs))
            /\ \A j \in 1..Len(c.cookie_dict) :
                 c.cookie_dict[j][2] = cs[LastOf(cs, c.cookie_dict[j][1])][2])
  /\ [][(cookies.pc # "none" /\
           (cookies'.header # cookies.header \/
            cookies'.cookie_dict # cookies.cookie_dict \/
            cookies'.snapshot # cookies.snapshot)) =>
          /\ cookies.pc = "reading"
          /\ cookies'.snapshot = cookies.browser]_vars

\* a refresh has replaced a snapshot by a list that lacks one of its names
\* and holds two cookies of one name, and the browser has moved on since
C12_Witness ==
  /\ cookies.pc = "idle"
  /\ cookies.refreshed
  /\ cookies.dropped
  /\ Len(cookies.snapshot) = 2
  /\ Len(cookies.cookie_dict) = 1
  /\ cookies.snapshot[1][2] # cookies.snapshot[2][2]
  /\ cookies.browser # cookies.snapshot

(***************************************************************************)
(* Properties of the drag trajectories, checked under SpecSlide.           *)
(***************************************************************************)
\* C13: the track get_track_simple returns for a distance of 10, 100, 300
\* or 1000 sums to that distance.
C13_SimpleSumIsDistance ==
  (slide.pc = "returned" /\ slide.level = "easy"
     /\ slide.distance \in ScenarioDistances) =>
    SumSeq(slide.track) = slide.distance

\* C14: the track the eased policy returns sums to the distance.
C14_EasedSumIsDistance ==
  (slide.pc = "returned" /\ slide.level # "easy") =>
    SumSeq(slide.track) = slide.distance

\* C20: for every distance the loop of get_track_simple ends within a number
\* of turns the distance bounds, every delta is a natural number (so the
\* running sum never decreases), and the track returned sums to the distance.
\* Stated for the runs in which no value sits on a boundary, where the exact
\* computation and the float computation are the same.
C20_SimpleTrackEndsAtDistance ==
  (slide.pc \in {"simple", "returned"} /\ slide.level = "easy"
     /\ ~slide.boundary) =>
    /\ Len(slide.track) <= 4 * slide.distance
    /\ \A j \in 1..Len(slide.track) : slide.track[j] \in Nat
    /\ slide.pc = "returned" => SumSeq(slide.track) = slide.distance

\* C20 without its last clause, for every run
C20_SimpleTrackEndsMonotone ==
  (slide.pc \in {"simple", "returned"} /\ slide.level = "easy") =>
    /\ Len(slide.track) <= 4 * slide.distance
    /\ \A j \in 1..Len(slide.track) : slide.track[j] \in Nat

(***************************************************************************)
(* Further properties of the harvester, checked under SpecHarvest.         *)
(***************************************************************************)
\* the quota is positive and the collected count has reached it
QuotaReached(t) ==
  Positive(max_comments) /\ t.collected_comments_count >= Val(max_comments)

\* a page has reported has_more false, or the quota has been reached
Stopped(t) ==
  /\ t.kind = "comments"
  /\ t.pages # <<>>
  /\ t.comments_has_more = 0 \/ QuotaReached(t)

\* the places of a harvest after a page has arrived, in the order of the code
Rank(pc) ==
  CASE pc = "callback" -> 1
    [] pc = "sleep" -> 2
    [] pc = "yield" -> 3
    [] pc \in {"returned", "raised"} -> 4
    [] OTHER -> 0

\* C15: a harvest that has seen has_more false, or whose collected count has
\* reached a positive max_comments, has no page request under way and begins
\* none; each of its steps takes it further along callback, sleep, yield,
\* end, so it ends within three steps.
C15_NoFetchAfterStop ==
  /\ [](\A j \in DOMAIN tasks :
          Stopped(tasks[j]) => tasks[j].pc \notin {"signing", "request"})
  /\ [][\A j \in DOMAIN tasks :
          (Stopped(tasks[j]) /\ tasks'[j] # tasks[j]) =>
             /\ tasks'[j].built = tasks[j].built
             /\ tasks'[j].sends = tasks[j].sends
             /\ Rank(tasks'[j].pc) > Rank(tasks[j].pc)]_vars

\* a harvest has returned on its second page because the quota was reached,
\* although the platform had more pages
C15_Witness ==
  \E j \in DOMAIN tasks :
    /\ tasks[j].pc = "returned"
    /\ QuotaReached(tasks[j])
    /\ tasks[j].comments_has_more # 0
    /\ Len(tasks[j].pages) = 2
    /\ tasks[j].built = 2

\* C16: when a page with no comments and has_more true arrives, the harvest
\* does not end: in the same step the next page request is begun, no batch
\* is yielded, and the request carries the cursor of that page when the page
\* returned one.
C16_EmptyPageContinues ==
  [][\A j \in DOMAIN tasks :
       LET t == tasks[j]
           u == tasks'[j]
       IN (/\ t.pc = "request"
           /\ t.kind = "comments"
           /\ Len(u.pages) = Len(t.pages) + 1
           /\ u.pages[Len(u.pages)] = 0
           /\ u.comments_has_more # 0) =>
            /\ u.pc = "signing"
            /\ u.built = t.built + 1
            /\ u.yields = t.yields
            /\ u.collected_comments_count = t.collected_comments_count
            /\ "cursor" \in DOMAIN Val(u.comments_res) =>
                 ParamCursor(u.params) = Val(u.comments_res).cursor]_vars

\* the request after an empty second page is under way with that page's cursor
C16_Witness ==
  \E j \in DOMAIN tasks :
    /\ tasks[j].pc = "signing"
    /\ Len(tasks[j].pages) = 2
    /\ tasks[j].pages[2] = 0
    /\ tasks[j].pages[1] > 0
    /\ "cursor" \in DOMAIN Val(tasks[j].comments_res)
    /\ Val(tasks[j].comments_res).cursor = 25
    /\ ParamCursor(tasks[j].params) = 25

\* C17: every page request of a harvest but the first is begun after a sleep
\* that has returned since the request before it: a harvest with its n-th
\* request under way has slept n - 1 times.
C17_SleepBetweenFetches ==
  \A j \in DOMAIN tasks :
    (tasks[j].kind = "comments" /\ tasks[j].pc \in {"signing", "request"}) =>
      tasks[j].sleeps = tasks[j].built - 1

\* C18: with a callback, the callback has been invoked once for every
\* non-empty page received, in order, the page that reached the quota
\* included; an invocation in progress has the target id and the whole list
\* of the response as arguments; the batch of a page is yielded only after
\* the invocation for that page has returned.  Without a callback nothing is
\* invoked.
C18_CallbackOncePerPage ==
  \A j \in DOMAIN tasks :
    LET t == tasks[j]
    IN IF ~callback THEN t.calls = <<>> /\ t.call = None
       ELSE /\ t.calls = SelectSeq(t.pages, LAMBDA n : n > 0)
            /\ t.call # None => t.pc \in {"callback", "raised"}
            /\ t.pc = "callback" =>
                 /\ t.call # None
                 /\ Val(t.call) = <<t.aweme_id, Val(t.comments_res).comments>>
                 /\ Len(t.yields) < Len(t.calls)
            /\ Len(t.yields) <= Len(t.calls)

\* the callback has been invoked for two pages, the second of which reached
\* the quota and was cut and filtered, and the harvest has returned
C18_Witness ==
  \E j \in DOMAIN tasks :
    /\ callback
    /\ KeywordsGiven
    /\ tasks[j].pc = "returned"
    /\ QuotaReached(tasks[j])
    /\ Len(tasks[j].calls) = 2
    /\ Len(tasks[j].yields) = 1
    /\ Len(tasks[j].result) < Len(tasks[j].comments)

(***************************************************************************)
(* Further properties of the request path, checked under Spec.             *)
(***************************************************************************)
\* the keys the signing routine sets
SigningKeys == Keys(common_params) \cup {"X-Bogus"}

\* the parameter map d holds none of the platform constants and no signature
Unsigned(d) == \A n \in 1..Len(d) : d[n][1] \notin SigningKeys

\* the parameter map d holds every platform constant and the signature
FullySigned(d) ==
  Cardinality({n \in 1..Len(d) : d[n][1] \in SigningKeys}) =
    Cardinality(SigningKeys)

\* C19 as stated: while a unit is inside the signing routine no other unit
\* takes a step.
C19_NoStepDuringSigning ==
  [][\A i \in DOMAIN tasks :
       tasks[i].pc = "signing" =>
          \A j \in (DOMAIN tasks \cap DOMAIN tasks') \ {i} :
             tasks'[j] = tasks[j]]_vars

\* C19 as amended: the routine is suspended once, at its local-storage read,
\* with the map as the caller built it; the merge of the constants, the
\* signing and the storing of the signature follow in one run, so at no
\* await does the map of a unit that has not failed hold the constants
\* without the signature: it is unsigned while the unit is suspended in the
\* routine and fully signed from then on.
C19_MergeToSignatureInOneStep ==
  \A j \in DOMAIN tasks :
    LET t == tasks[j]
    IN /\ t.pc = "signing" => Unsigned(t.params) /\ t.signed = 0
       /\ (~t.failed /\ t.pc \notin {"created", "signing"}) =>
             FullySigned(t.params) /\ t.signed = 1

\* a unit has its signed request in transmission while another unit is
\* suspended in the local-storage read of its own signing
C19_Witness ==
  \E j, k \in DOMAIN tasks :
    /\ tasks[j].pc = "request" /\ tasks[j].signed = 1 /\ tasks[j].built = 2
    /\ tasks[k].pc = "signing" /\ tasks[k].signed = 0

(***************************************************************************)
(* Properties of the gap-image crop, checked under SpecClearWhite.         *)
(***************************************************************************)
\* the places of the pixels with more than one channel value
NonUniform(img) == {xy \in DOMAIN img : ChannelValues(img[xy]) >= 2}

\* the rows, or for n = 2 the columns, from the first to the last of places P
Span(P, n) ==
  {k \in 0..MaxSide :
     /\ \E xy \in P : xy[n] <= k
     /\ \E xy \in P : xy[n] >= k}

\* C21: the crop clear_white returns keeps the rows from the first to the
\* last row that holds a pixel with more than one channel value, and the
\* columns from the first to the last such column; it is empty when the
\* image has no such pixel.
C21_CropIsBoundingBox ==
  slide.pc = "returned" =>
    LET P == NonUniform(slide.img)
        img1 == Val(slide.img1)
    IN IF P = {} THEN img1.xs = {} \/ img1.ys = {}
       ELSE img1.xs = Span(P, 1) /\ img1.ys = Span(P, 2)

\* the crop of an image with no such pixel in row 0 or column 0 and with
\* such pixels in two rows and two columns keeps the first of them alone
C21_InnerBoxCutShort ==
  (/\ slide.pc = "returned"
   /\ \A xy \in NonUniform(slide.img) : xy[1] > 0 /\ xy[2] > 0
   /\ Cardinality(Span(NonUniform(slide.img), 1)) >= 2
   /\ Cardinality(Span(NonUniform(slide.img), 2)) >= 2) =>
    /\ Val(slide.img1).xs # Span(NonUniform(slide.img), 1)
    /\ Val(slide.img1).ys # Span(NonUniform(slide.img), 2)

(***************************************************************************)
(* Further properties of the orchestrator, checked under Spec.             *)
(***************************************************************************)
\* C22: the comment batch returns normally for every target list, the empty
\* one included: no run ends in an exception out of the orchestrator, and a
\* run over search keywords that has finished has worked on every keyword.
C22_EmptyBatchReturns ==
  /\ opc # "crashed"
  /\ (opc = "finished" /\ search_keywords # <<>>) =>
        kw = Len(search_keywords)

(***************************************************************************)
(* Liveness of the gate, checked under SpecGate.                           *)
(***************************************************************************)
\* C23: in a batch of more items than permits, every unit that waits for a
\* permit gets one and ends, by returning or by failing, and once all units
\* have ended the batch operation returns.
C23_GateNeverStarves ==
  /\ (InOrch /\ cpu_count < Len(tasks))
       ~> (/\ InOrch
           /\ AllEnded
           /\ \A i \in DOMAIN tasks : ~tasks[i].permit /\ tasks[i].pc # "created")
  /\ (InOrch /\ cpu_count < Len(tasks) /\ AllEnded)
       ~> ~(InOrch /\ AllEnded)

\* a run over more items than permits has finished after both its batches,
\* one unit of which has failed
C23_Witness ==
  /\ opc = "finished"
  /\ cpu_count < Len(tasks)
  /\ batches = 2
  /\ AllEnded
  /\ \E j, k \in DOMAIN tasks :
       /\ tasks[j].failed
       /\ tasks[k].pc = "returned" /\ tasks[k].sends > 0

(***************************************************************************)
(* Properties of the session, checked under SpecSession.                   *)
(***************************************************************************)
\* C24: no detail request and no comment-page request changes the shared
\* header map: from its creation on the map holds the entries it was created
\* with, Origin and Referer included, its Cookie entry being the string set
\* last, and a step that changes the map is the creation of the client or
\* the return of a cookie refresh.
C24_SharedHeadersKept ==
  /\ [](cookies.headers # <<>> =>
          cookies.headers = ClientHeaders(cookies.latest))
  /\ [][cookies'.headers # cookies.headers =>
          /\ cookies.pc \in {"create", "refresh"}
          /\ cookies.pc = "refresh" =>
               /\ cookies'.refreshes = cookies.refreshes + 1
               /\ cookies'.headers =
                    DictSet(cookies.headers, "Cookie", cookies'.latest)]_vars

\* a detail request has been transmitted without Origin and a comment request
\* that has built its Referer copy is under way, after a cookie refresh
C24_Witness ==
  /\ cookies.pc = "run"
  /\ cookies.refreshes = 1
  /\ \E i, j \in DOMAIN cookies.reqs :
       /\ cookies.reqs[i].kind = "detail"
       /\ cookies.reqs[i].pc = "request"
       /\ "Origin" \notin Keys(Val(cookies.reqs[i].sent))
       /\ cookies.reqs[j].kind = "comments"
       /\ cookies.reqs[j].pc \in {"signing", "request"}
       /\ DictValue(cookies.reqs[j].local, "Referer") #
            DictValue(cookies.headers, "Referer")
  /\ "Origin" \in Keys(cookies.headers)

\* C25: when the probe has reported that no one is logged in, a request is
\* issued only after the login flow and then one cookie refresh have
\* completed; no request exists while the start-up reads cookies, logs in or
\* refreshes; every transmitted request carries the Cookie string set last,
\* by the refresh or, without one, by the creation of the client.
C25_RefreshBeforeRequests ==
  /\ (cookies.reqs # <<>> /\ cookies.probe = "out") =>
        /\ ~IsNone(cookies.login_phone)
        /\ cookies.logins = 1
        /\ cookies.refreshes = 1
  /\ cookies.refreshes <= cookies.logins
  /\ cookies.pc \in {"create", "pong", "login", "refresh"} =>
        cookies.reqs = <<>>
  /\ cookies.refreshes > 0 =>
        cookies.probe = "out" /\ cookies.pc \notin {"create", "pong", "login"}
  /\ \A i \in DOMAIN cookies.reqs :
       ~IsNone(cookies.reqs[i].sent) =>
          DictValue(Val(cookies.reqs[i].sent), "Cookie") = cookies.latest

\* the probe has reported "not logged in", the login and the refresh are done,
\* a detail and a comment request have been transmitted with the refreshed
\* string, and the browser holds other cookies by now
C25_Witness ==
  /\ cookies.probe = "out"
  /\ cookies.logins = 1
  /\ cookies.refreshes = 1
  /\ cookies.latest = Join(<< <<"sid", "1">>, <<"LOGIN_STATUS", "1">> >>)
  /\ ConvertCookies(cookies.browser).cookie_str # cookies.latest
  /\ \E i, j \in DOMAIN cookies.reqs :
       /\ cookies.reqs[i].kind = "detail"
       /\ cookies.reqs[j].kind = "comments"
       /\ ~IsNone(cookies.reqs[i].sent)
       /\ ~IsNone(cookies.reqs[j].sent)
       /\ DictValue(Val(cookies.reqs[i].sent), "Cookie") = cookies.latest
       /\ DictValue(Val(cookies.reqs[j].sent), "Cookie") = cookies.latest

====
